---------------------------- MODULE Spec2Model ----------------------------
(***************************************************************************)
(* A model of package timeinterval (src/timeinterval/timeinterval.go):     *)
(* the TimeInterval value, the containment predicate ContainsTime, the     *)
(* calendar helper daysInMonth and the parsers of the textual encoding.    *)
(*                                                                         *)
(* A Go slice is a sequence; a nil slice is the empty sequence (the loops  *)
(* of ContainsTime run zero times over a nil and over an empty slice       *)
(* alike).  A Go string is the sequence of its characters.  An error is a  *)
(* string naming it, and "nil" is the nil error.                           *)
(***************************************************************************)
EXTENDS Integers, Sequences, FiniteSets, TLC

VARIABLES
    op,         \* the operation that ran last
    tp,         \* the TimeInterval ContainsTime was called on
    t,          \* the instant it was called with
    contained,  \* what ContainsTime returned
    y,          \* the yamlTimeRange handed to timeRange.UnmarshalYAML
    tr0,        \* the receiver timeRange before the call
    tr,         \* the receiver timeRange after the call
    trErr,      \* the error timeRange.UnmarshalYAML returned
    dowString,  \* the string handed to weekdayRange.UnmarshalYAML
    wr0,        \* the receiver weekdayRange before the call
    wr,         \* the receiver weekdayRange after the call
    wrErr,      \* the error weekdayRange.UnmarshalYAML returned
    domString,  \* the day-of-month token handed to its parser
    dr,         \* the range the day-of-month parser returned
    drErr,      \* the error the day-of-month parser returned
    timeString, \* the string handed to parseTime
    mins,       \* the minutes parseTime returned
    minsErr,    \* the error parseTime returned
    text,       \* the textual form of a list of intervals handed to the parser
    x,          \* the list of TimeIntervals parsed from text
    xErr,       \* the error of that parse
    out,        \* the textual form x was encoded to
    x2,         \* the list of TimeIntervals parsed from out
    x2Err       \* the error of that parse

vars == <<op, tp, t, contained, y, tr0, tr, trErr,
          dowString, wr0, wr, wrErr, domString, dr, drErr,
          timeString, mins, minsErr, text, x, xErr, out, x2, x2Err>>

containsVars == <<tp, t, contained>>
timeRangeVars == <<y, tr0, tr, trErr>>
weekdayVars == <<dowString, wr0, wr, wrErr>>
dayOfMonthVars == <<domString, dr, drErr>>
parseTimeVars == <<timeString, mins, minsErr>>
roundTripVars == <<text, x, xErr, out, x2, x2Err>>

-----------------------------------------------------------------------------
(* Values *)

\* type timeRange struct { startMinute, endMinute int }
timeRange(s, e) == [startMinute |-> s, endMinute |-> e]

\* type inclusiveRange struct { begin, end int }; weekdayRange has the same shape
inclusiveRange(b, e) == [begin |-> b, end |-> e]

\* type TimeInterval struct: five slices of ranges
TimeInterval(ts, doms, ms, dows, ys) ==
    [times |-> ts, daysOfMonth |-> doms, months |-> ms,
     daysOfWeek |-> dows, years |-> ys]

\* TimeInterval{}: every slice nil
ZeroInterval == TimeInterval(<<>>, <<>>, <<>>, <<>>, <<>>)

\* timeRange{}, weekdayRange{}: the zero values
ZeroTimeRange == timeRange(0, 0)
ZeroRange == inclusiveRange(0, 0)

-----------------------------------------------------------------------------
(* The calendar of package time, as far as ContainsTime reads it.  An      *)
(* instant is its wall-clock fields and its location.                      *)

\* time.Date(year, month, day, hour, min, sec, 0, loc)
Instant(yr, mo, d, h, mi, s, loc) ==
    [year |-> yr, month |-> mo, day |-> d, hour |-> h, minute |-> mi,
     second |-> s, loc |-> loc]

IsLeap(yr) == (yr % 4 = 0 /\ yr % 100 # 0) \/ yr % 400 = 0

\* The Gregorian length of a month, which time.Date normalises against.
CalendarDays(yr, mo) ==
    IF mo = 2 THEN (IF IsLeap(yr) THEN 29 ELSE 28)
    ELSE IF mo \in {4, 6, 9, 11} THEN 30 ELSE 31

\* t.Weekday(): Sunday = 0 ... Saturday = 6
Weekday(i) ==
    LET a == IF i.month < 3 THEN i.year - 1 ELSE i.year
        off == <<0, 3, 2, 5, 0, 3, 5, 1, 4, 6, 2, 4>>
    IN  (a + (a \div 4) - (a \div 100) + (a \div 400) + off[i.month] + i.day) % 7

\* The offset from UTC, in hours, that a location observes at 00:00 on the
\* first of a month.  America/New_York is on daylight time (UTC-4) from the
\* second Sunday of March to the first Sunday of November, so the months
\* April..November begin on daylight time and the others on standard time.
UTCOffsetAtMonthStart(loc, mo) ==
    IF loc = "America/New_York" THEN (IF mo \in 4..11 THEN -4 ELSE -5)
    ELSE 0

\* monthEnd.Sub(monthStart) in hours: both are 00:00 wall-clock in the
\* location, so the elapsed time is the calendar days less the change of
\* the UTC offset across the month.
MonthHours(yr, mo, loc) ==
    LET next == IF mo = 12 THEN 1 ELSE mo + 1
    IN  24 * CalendarDays(yr, mo)
          + UTCOffsetAtMonthStart(loc, mo) - UTCOffsetAtMonthStart(loc, next)

\* daysInMonth: int(diff.Hours() / 24), the conversion truncating.
daysInMonth(i) == MonthHours(i.year, i.month, i.loc) \div 24

-----------------------------------------------------------------------------
(* ContainsTime.  Each dimension is a loop whose body ends on its first    *)
(* iteration either way: `break` when the range holds the instant, and     *)
(* `return false` otherwise.  A dimension therefore lets the instant pass  *)
(* when its slice is nil or empty, or when its FIRST range holds the       *)
(* instant; later ranges are never read.                                   *)

\* timesPass with the end minute included (`<=` for `<`)
timesPassInclusiveEnd(i, v) ==
    \/ Len(v.times) = 0
    \/ /\ (i.hour * 60 + i.minute) >= v.times[1].startMinute
       /\ (i.hour * 60 + i.minute) <= v.times[1].endMinute

\* if tp.times != nil { for ... { if m >= start && m < end { break }; return false } }
timesPass(i, v) ==
    \/ Len(v.times) = 0
    \/ /\ (i.hour * 60 + i.minute) >= v.times[1].startMinute
       /\ (i.hour * 60 + i.minute) < v.times[1].endMinute

\* the resolution of one day-of-month bound against the instant's month
resolveDay(i, b) == IF b < 0 THEN daysInMonth(i) + b + 1 ELSE b

\* if tp.daysOfMonth != nil { ... }
daysOfMonthPass(i, v) ==
    \/ Len(v.daysOfMonth) = 0
    \/ /\ i.day >= resolveDay(i, v.daysOfMonth[1].begin)
       /\ i.day <= resolveDay(i, v.daysOfMonth[1].end)

\* monthsPass without the test against the end of the range
monthsPassNoUpperBound(i, v) ==
    \/ Len(v.months) = 0
    \/ i.month >= v.months[1].begin

\* if tp.months != nil { ... }
monthsPass(i, v) ==
    \/ Len(v.months) = 0
    \/ /\ i.month >= v.months[1].begin
       /\ i.month <= v.months[1].end

\* if tp.daysOfWeek != nil { ... }
daysOfWeekPass(i, v) ==
    \/ Len(v.daysOfWeek) = 0
    \/ /\ Weekday(i) >= v.daysOfWeek[1].begin
       /\ Weekday(i) <= v.daysOfWeek[1].end

\* yearsPass with a nil slice matching no instant
yearsPassNilFails(i, v) ==
    /\ Len(v.years) > 0
    /\ i.year >= v.years[1].begin
    /\ i.year <= v.years[1].end

\* if tp.years != nil { ... }
yearsPass(i, v) ==
    \/ Len(v.years) = 0
    \/ /\ i.year >= v.years[1].begin
       /\ i.year <= v.years[1].end

\* func (tp TimeInterval) ContainsTime(t time.Time) bool
ContainsTime(v, i) ==
    /\ timesPass(i, v)
    /\ daysOfMonthPass(i, v)
    /\ monthsPass(i, v)
    /\ daysOfWeekPass(i, v)
    /\ yearsPass(i, v)

-----------------------------------------------------------------------------
(* Strings: a string is the sequence of its characters.                    *)

Digits == <<"0", "1", "2", "3", "4", "5", "6", "7", "8", "9">>
UpperCase == <<"A", "B", "C", "D", "E", "F", "G", "H", "I", "J", "K", "L", "M",
               "N", "O", "P", "Q", "R", "S", "T", "U", "V", "W", "X", "Y", "Z">>
LowerCase == <<"a", "b", "c", "d", "e", "f", "g", "h", "i", "j", "k", "l", "m",
               "n", "o", "p", "q", "r", "s", "t", "u", "v", "w", "x", "y", "z">>

IsDigit(c) == \E k \in DOMAIN Digits : Digits[k] = c
DigitValue(c) == (CHOOSE k \in DOMAIN Digits : Digits[k] = c) - 1

\* strings.ToLower
ToLower(s) ==
    [k \in DOMAIN s |->
        IF \E u \in DOMAIN UpperCase : UpperCase[u] = s[k]
        THEN LowerCase[CHOOSE u \in DOMAIN UpperCase : UpperCase[u] = s[k]]
        ELSE s[k]]

\* strings.ContainsRune(s, ':')
ContainsColon(s) == \E k \in DOMAIN s : s[k] = ":"

\* strings.Split(s, ":"): the pieces between the colons, empty pieces kept
RECURSIVE Split(_)
Split(s) ==
    IF ~ContainsColon(s) THEN <<s>>
    ELSE LET k == CHOOSE j \in DOMAIN s :
                      s[j] = ":" /\ \A h \in 1..(j - 1) : s[h] # ":"
         IN  <<SubSeq(s, 1, k - 1)>> \o Split(SubSeq(s, k + 1, Len(s)))

\* the value of a string of digits
RECURSIVE DigitsValue(_)
DigitsValue(s) ==
    IF Len(s) = 0 THEN 0
    ELSE 10 * DigitsValue(SubSeq(s, 1, Len(s) - 1)) + DigitValue(s[Len(s)])

\* strconv.Atoi: an optional sign and one or more digits, an error otherwise
Atoi(s) ==
    LET signed == Len(s) > 0 /\ s[1] \in {"-", "+"}
        body == IF signed THEN Tail(s) ELSE s
    IN  IF Len(body) = 0 \/ \E k \in DOMAIN body : ~IsDigit(body[k])
        THEN [val |-> 0, err |-> "strconv.Atoi: invalid syntax"]
        ELSE [val |-> IF signed /\ s[1] = "-" THEN 0 - DigitsValue(body)
                      ELSE DigitsValue(body),
              err |-> "nil"]

-----------------------------------------------------------------------------
(* The time-of-day parser *)

\* validTimeRE with the hour 24 taken into the first alternative (2[0-4])
validTimeREHour24(s) ==
    /\ Len(s) = 5
    /\ \/ s[1] \in {"0", "1"} /\ IsDigit(s[2])
       \/ s[1] = "2" /\ s[2] \in {"0", "1", "2", "3", "4"}
    /\ s[3] = ":"
    /\ s[4] \in {"0", "1", "2", "3", "4", "5"}
    /\ IsDigit(s[5])

\* validTimeRE = "^((([01][0-9])|(2[0-3])):[0-5][0-9])$|(^24:00$)"
validTimeRE(s) ==
    \/ /\ Len(s) = 5
       /\ \/ s[1] \in {"0", "1"} /\ IsDigit(s[2])
          \/ s[1] = "2" /\ s[2] \in {"0", "1", "2", "3"}
       /\ s[3] = ":"
       /\ s[4] \in {"0", "1", "2", "3", "4", "5"}
       /\ IsDigit(s[5])
    \/ s = <<"2", "4", ":", "0", "0">>

\* func parseTime(in string) (mins int, err error)
parseTime(in) ==
    IF ~validTimeRE(in)
    THEN [mins |-> 0, err |-> "invalid format"]
    ELSE LET timestampComponents == Split(in)
             timeStampHours == Atoi(timestampComponents[1])
             timeStampMinutes == Atoi(timestampComponents[2])
         IN  IF timeStampHours.err # "nil"
             THEN [mins |-> 0, err |-> timeStampHours.err]
             ELSE IF timeStampMinutes.err # "nil"
             THEN [mins |-> 0, err |-> timeStampMinutes.err]
             ELSE IF \/ timeStampHours.val < 0 \/ timeStampHours.val > 24
                     \/ timeStampMinutes.val < 0 \/ timeStampMinutes.val > 60
             THEN [mins |-> 0, err |-> "out of range"]
             ELSE [mins |-> timeStampHours.val * 60 + timeStampMinutes.val,
                   err |-> "nil"]

\* The YAML node handed to an unmarshaller is a mapping with the keys it
\* carries, or a scalar string.  unmarshal(&y) into a yamlTimeRange fails
\* on a node that is not a mapping and leaves an absent key "".
MappingNode(start, end) == [kind |-> "mapping", StartTime |-> start, EndTime |-> end]
ScalarNode(s) == [kind |-> "scalar", value |-> s]

\* UnmarshalYAML with the receiver assigned before the range checks
UnmarshalTimeRangeEarlyWrite(recv, node) ==
    IF node.kind # "mapping"
    THEN [tr |-> recv, err |-> "yaml: cannot unmarshal"]
    ELSE IF node.EndTime = <<>> \/ node.StartTime = <<>>
    THEN [tr |-> recv, err |-> "Both start and end times must be provided"]
    ELSE LET start == parseTime(node.StartTime)
             end == parseTime(node.EndTime)
             early == timeRange(start.mins, end.mins)
         IN  IF start.err # "nil"
             THEN [tr |-> recv, err |-> "nil"]
             ELSE IF end.err # "nil"
             THEN [tr |-> recv, err |-> end.err]
             ELSE IF start.mins < 0
             THEN [tr |-> early, err |-> "Start time out of range"]
             ELSE IF end.mins > 1440
             THEN [tr |-> early, err |-> "End time out of range"]
             ELSE IF start.mins >= end.mins
             THEN [tr |-> early,
                   err |-> "Start time cannot be equal or greater than end time"]
             ELSE [tr |-> early, err |-> "nil"]

\* func (tr *timeRange) UnmarshalYAML(unmarshal func(interface{}) error) error
\* recv is the receiver before the call; the result is the receiver after
\* the call and the error returned.
UnmarshalTimeRange(recv, node) ==
    IF node.kind # "mapping"
    THEN [tr |-> recv, err |-> "yaml: cannot unmarshal"]
    ELSE IF node.EndTime = <<>> \/ node.StartTime = <<>>
    THEN [tr |-> recv, err |-> "Both start and end times must be provided"]
    ELSE LET start == parseTime(node.StartTime)
             end == parseTime(node.EndTime)
         IN  IF start.err # "nil"
             THEN [tr |-> recv, err |-> "nil"]        \* `return nil`, line 85
             ELSE IF end.err # "nil"
             THEN [tr |-> recv, err |-> end.err]
             ELSE IF start.mins < 0
             THEN [tr |-> recv, err |-> "Start time out of range"]
             ELSE IF end.mins > 1440
             THEN [tr |-> recv, err |-> "End time out of range"]
             ELSE IF start.mins >= end.mins
             THEN [tr |-> recv,
                   err |-> "Start time cannot be equal or greater than end time"]
             ELSE [tr |-> timeRange(start.mins, end.mins), err |-> "nil"]

-----------------------------------------------------------------------------
(* The weekday parser *)

\* var daysOfWeek = map[string]int{...}
daysOfWeek ==
    <<"s", "u", "n", "d", "a", "y">> :> 0 @@
    <<"m", "o", "n", "d", "a", "y">> :> 1 @@
    <<"t", "u", "e", "s", "d", "a", "y">> :> 2 @@
    <<"w", "e", "d", "n", "e", "s", "d", "a", "y">> :> 3 @@
    <<"t", "h", "u", "r", "s", "d", "a", "y">> :> 4 @@
    <<"f", "r", "i", "d", "a", "y">> :> 5 @@
    <<"s", "a", "t", "u", "r", "d", "a", "y">> :> 6

\* parseDayOfWeekString without the test startDay > endDay
parseDayOfWeekStringUnordered(in) ==
    LET low == ToLower(in)
        weekdayStrings == Split(low)
    IN  IF ContainsColon(low)
        THEN IF Len(weekdayStrings) # 2
             THEN [tr |-> ZeroRange, err |-> "invalid format"]
             ELSE IF weekdayStrings[1] \notin DOMAIN daysOfWeek
             THEN [tr |-> ZeroRange, err |-> "Invalid start day"]
             ELSE IF weekdayStrings[2] \notin DOMAIN daysOfWeek
             THEN [tr |-> ZeroRange, err |-> "Invalid end day"]
             ELSE [tr |-> inclusiveRange(daysOfWeek[weekdayStrings[1]],
                                         daysOfWeek[weekdayStrings[2]]),
                   err |-> "nil"]
        ELSE IF low \notin DOMAIN daysOfWeek
             THEN [tr |-> ZeroRange, err |-> "Unknown day of week"]
             ELSE [tr |-> inclusiveRange(daysOfWeek[low], daysOfWeek[low]),
                   err |-> "nil"]

\* func parseDayOfWeekString(in string) (tr weekdayRange, err error)
parseDayOfWeekString(in) ==
    LET low == ToLower(in)
        weekdayStrings == Split(low)
    IN  IF ContainsColon(low)
        THEN IF Len(weekdayStrings) # 2
             THEN [tr |-> ZeroRange, err |-> "invalid format"]
             ELSE IF weekdayStrings[1] \notin DOMAIN daysOfWeek
             THEN [tr |-> ZeroRange, err |-> "Invalid start day"]
             ELSE IF weekdayStrings[2] \notin DOMAIN daysOfWeek
             THEN [tr |-> ZeroRange, err |-> "Invalid end day"]
             ELSE IF daysOfWeek[weekdayStrings[1]] > daysOfWeek[weekdayStrings[2]]
             THEN [tr |-> ZeroRange, err |-> "Start day cannot be after end day"]
             ELSE [tr |-> inclusiveRange(daysOfWeek[weekdayStrings[1]],
                                         daysOfWeek[weekdayStrings[2]]),
                   err |-> "nil"]
        ELSE IF low \notin DOMAIN daysOfWeek
             THEN [tr |-> ZeroRange, err |-> "Unknown day of week"]
             ELSE [tr |-> inclusiveRange(daysOfWeek[low], daysOfWeek[low]),
                   err |-> "nil"]

\* func (wr *weekdayRange) UnmarshalYAML(unmarshal func(interface{}) error) error
UnmarshalWeekdayRange(recv, node) ==
    IF node.kind # "scalar"
    THEN [wr |-> recv, err |-> "yaml: cannot unmarshal"]
    ELSE LET dow == parseDayOfWeekString(node.value)
         IN  IF dow.err # "nil"
             THEN [wr |-> recv, err |-> dow.err]
             ELSE [wr |-> dow.tr, err |-> "nil"]

-----------------------------------------------------------------------------
(* The day-of-month parser.  Its code is in the root package, which is not *)
(* among the sources; it is written here from the specification, section   *)
(* 4.2: a token is a bare integer or int:int; zero is never a day; a day   *)
(* below -31 is impossible; of the ranges that mix signs only those from a *)
(* positive day to -1, the last day, are accepted; a range of one sign     *)
(* needs begin <= end.                                                     *)

\* parseDayOfMonth without the rejection of ranges that mix signs
parseDayOfMonthAnySigns(in) ==
    LET parts == Split(in)
        b == Atoi(parts[1])
        e == IF Len(parts) = 2 THEN Atoi(parts[2]) ELSE b
    IN  IF Len(parts) > 2 \/ b.err # "nil" \/ e.err # "nil"
        THEN [dr |-> ZeroRange, err |-> "FormatError"]
        ELSE IF b.val = 0 \/ e.val = 0
        THEN [dr |-> ZeroRange, err |-> "RangeError: zero"]
        ELSE IF b.val < -31 \/ e.val < -31
        THEN [dr |-> ZeroRange, err |-> "RangeError: impossible day"]
        ELSE IF ((b.val > 0) = (e.val > 0)) /\ b.val > e.val
        THEN [dr |-> ZeroRange, err |-> "RangeError: begin after end"]
        ELSE [dr |-> inclusiveRange(b.val, e.val), err |-> "nil"]

parseDayOfMonth(in) ==
    LET parts == Split(in)
        b == Atoi(parts[1])
        e == IF Len(parts) = 2 THEN Atoi(parts[2]) ELSE b
    IN  IF Len(parts) > 2 \/ b.err # "nil" \/ e.err # "nil"
        THEN [dr |-> ZeroRange, err |-> "FormatError"]
        ELSE IF b.val = 0 \/ e.val = 0
        THEN [dr |-> ZeroRange, err |-> "RangeError: zero"]
        ELSE IF b.val < -31 \/ e.val < -31
        THEN [dr |-> ZeroRange, err |-> "RangeError: impossible day"]
        ELSE IF b.val < 0 /\ e.val > 0
        THEN [dr |-> ZeroRange, err |-> "RangeError: sign mix"]
        ELSE IF b.val > 0 /\ e.val < 0 /\ e.val # -1
        THEN [dr |-> ZeroRange, err |-> "RangeError: sign mix"]
        ELSE IF ((b.val > 0) = (e.val > 0)) /\ b.val > e.val
        THEN [dr |-> ZeroRange, err |-> "RangeError: begin after end"]
        ELSE [dr |-> inclusiveRange(b.val, e.val), err |-> "nil"]

-----------------------------------------------------------------------------
(* The textual form of a list of intervals and its codec.  The code that   *)
(* decodes a whole interval and that encodes one is in the root package,   *)
(* which is not among the sources; it is written here from the             *)
(* specification, sections 4.2 and 6: an interval is a mapping with the    *)
(* optional keys times (pairs start_time, end_time in HH:MM), weekdays     *)
(* (day or day:day), days_of_month, months and years (int or int:int).     *)
(* The time ranges and the weekday ranges are decoded by the unmarshallers *)
(* above, each into a fresh range.                                         *)

Join(a, b) == a \o <<":">> \o b

\* the decimal text of an integer
RECURSIVE NatText(_)
NatText(n) ==
    IF n < 10 THEN <<Digits[n + 1]>> ELSE NatText(n \div 10) \o <<Digits[(n % 10) + 1]>>

Itoa(n) == IF n < 0 THEN <<"-">> \o NatText(0 - n) ELSE NatText(n)

IntervalText(ts, wds, doms, ms, ys) ==
    [times |-> ts, weekdays |-> wds, days_of_month |-> doms,
     months |-> ms, years |-> ys]

\* a month or year token: a bare integer or int:int, begin <= end
parseIntRange(in) ==
    LET parts == Split(in)
        b == Atoi(parts[1])
        e == IF Len(parts) = 2 THEN Atoi(parts[2]) ELSE b
    IN  IF Len(parts) > 2 \/ b.err # "nil" \/ e.err # "nil"
        THEN [r |-> ZeroRange, err |-> "FormatError"]
        ELSE IF b.val > e.val
        THEN [r |-> ZeroRange, err |-> "RangeError: begin after end"]
        ELSE [r |-> inclusiveRange(b.val, e.val), err |-> "nil"]

\* the error of a sequence of results: nil when every one is nil
AnyErr(errs) ==
    IF \A k \in DOMAIN errs : errs[k] = "nil" THEN "nil" ELSE "parse error"

\* an interval of decoded ranges, with the error of the decodings
DecodedInterval(ts, wds, doms, ms, ys) ==
    [v |-> TimeInterval([k \in DOMAIN ts |-> ts[k].tr],
                        [k \in DOMAIN doms |-> doms[k].dr],
                        [k \in DOMAIN ms |-> ms[k].r],
                        [k \in DOMAIN wds |-> wds[k].wr],
                        [k \in DOMAIN ys |-> ys[k].r]),
     err |-> AnyErr([k \in DOMAIN ts |-> ts[k].err]
                      \o [k \in DOMAIN wds |-> wds[k].err]
                      \o [k \in DOMAIN doms |-> doms[k].err]
                      \o [k \in DOMAIN ms |-> ms[k].err]
                      \o [k \in DOMAIN ys |-> ys[k].err])]

\* the decoding of one interval
UnmarshalInterval(it) ==
    DecodedInterval(
        [k \in DOMAIN it.times |-> UnmarshalTimeRange(ZeroTimeRange, it.times[k])],
        [k \in DOMAIN it.weekdays |->
            UnmarshalWeekdayRange(ZeroRange, ScalarNode(it.weekdays[k]))],
        [k \in DOMAIN it.days_of_month |-> parseDayOfMonth(it.days_of_month[k])],
        [k \in DOMAIN it.months |-> parseIntRange(it.months[k])],
        [k \in DOMAIN it.years |-> parseIntRange(it.years[k])])

\* a list of decoded intervals: no value comes with an error
DecodedList(rs) ==
    IF AnyErr([k \in DOMAIN rs |-> rs[k].err]) = "nil"
    THEN [x |-> [k \in DOMAIN rs |-> rs[k].v], err |-> "nil"]
    ELSE [x |-> <<>>, err |-> "parse error"]

\* the decoding of a list of intervals
UnmarshalIntervals(txt) ==
    DecodedList([k \in DOMAIN txt |-> UnmarshalInterval(txt[k])])

\* HH:MM of a minute of the day, 1440 being 24:00
FormatTime(m) ==
    LET two(n) == <<Digits[(n \div 10) + 1], Digits[(n % 10) + 1]>>
    IN  two(m \div 60) \o <<":">> \o two(m % 60)

\* the name of a weekday ordinal
DayName(n) == CHOOSE s \in DOMAIN daysOfWeek : daysOfWeek[s] = n

MarshalTimeRange(r) == MappingNode(FormatTime(r.startMinute), FormatTime(r.endMinute))
MarshalWeekdayRange(r) ==
    IF r.begin = r.end THEN DayName(r.begin)
    ELSE Join(DayName(r.begin), DayName(r.end))
MarshalIntRange(r) ==
    IF r.begin = r.end THEN Itoa(r.begin) ELSE Join(Itoa(r.begin), Itoa(r.end))

\* the encoding of one interval
MarshalInterval(v) ==
    IntervalText([k \in DOMAIN v.times |-> MarshalTimeRange(v.times[k])],
                 [k \in DOMAIN v.daysOfWeek |-> MarshalWeekdayRange(v.daysOfWeek[k])],
                 [k \in DOMAIN v.daysOfMonth |-> MarshalIntRange(v.daysOfMonth[k])],
                 [k \in DOMAIN v.months |-> MarshalIntRange(v.months[k])],
                 [k \in DOMAIN v.years |-> MarshalIntRange(v.years[k])])

\* the encoding of a list of intervals
MarshalIntervals(xs) == [k \in DOMAIN xs |-> MarshalInterval(xs[k])]

-----------------------------------------------------------------------------
(* Bounded inputs *)

\* the most ranges one dimension of an input interval holds
MaxRanges == 2
\* the most ranges an input interval holds over its five dimensions
MaxTotal == 3

Locations == {"UTC", "America/New_York"}

\* every day of the given years and months, at the given times of day, in
\* the given locations; a clock is <<hour, minute, second>>
Instants(years, months, days, clocks, locs) ==
    { i \in { Instant(yr, mo, d, c[1], c[2], c[3], l) :
                yr \in years, mo \in months, d \in days, c \in clocks, l \in locs } :
        i.day <= CalendarDays(i.year, i.month) }

SeqsUpTo(S, n) == UNION { [1..k -> S] : k \in 0..n }

\* Intervals of several dimensions and several ranges a dimension.
SomeTimes == {timeRange(540, 1020), timeRange(0, 540)}
SomeDaysOfMonth == {inclusiveRange(-7, -1), inclusiveRange(1, 27)}
SomeMonths == {inclusiveRange(1, 3), inclusiveRange(6, 6)}
SomeWeekdays == {inclusiveRange(1, 5), inclusiveRange(6, 6)}
SomeYears == {inclusiveRange(2020, 2025), inclusiveRange(2030, 2035)}

Min(a, b) == IF a < b THEN a ELSE b

\* the sequences one dimension may hold when n ranges are already taken
Ranges(S, n) == SeqsUpTo(S, Min(MaxRanges, MaxTotal - n))

Intervals ==
    UNION { UNION { UNION { UNION {
        { TimeInterval(a, b, c, d, e) :
            e \in Ranges(SomeYears, Len(a) + Len(b) + Len(c) + Len(d)) } :
          d \in Ranges(SomeWeekdays, Len(a) + Len(b) + Len(c)) } :
          c \in Ranges(SomeMonths, Len(a) + Len(b)) } :
          b \in Ranges(SomeDaysOfMonth, Len(a)) } :
          a \in Ranges(SomeTimes, 0) }

SomeInstants ==
    Instants({2021, 2026, 2035}, {1, 3, 6}, {1, 27, 30, 31},
             {<<8, 59, 59>>, <<9, 0, 0>>, <<17, 0, 0>>}, Locations)

\* Intervals of the day-of-month dimension, alone and with a month, on
\* every day of a leap year and of a common year.
DayRanges ==
    {inclusiveRange(-3, -1), inclusiveRange(1, -1), inclusiveRange(-31, 31),
     inclusiveRange(4, 6), inclusiveRange(-1, -1)}

DayIntervals ==
    { TimeInterval(<<>>, <<r>>, ms, <<>>, <<>>) :
        r \in DayRanges, ms \in {<<>>, <<inclusiveRange(6, 6)>>} }

DayInstants ==
    Instants({2019, 2020}, 1..12, 1..31, {<<0, 0, 0>>, <<13, 0, 0>>}, Locations)

\* Intervals of one time range, at every minute of a day.
ClockIntervals ==
    { TimeInterval(<<r>>, <<>>, <<>>, <<>>, <<>>) :
        r \in {timeRange(540, 1020), timeRange(0, 1440), timeRange(95, 1059),
               timeRange(575, 579), timeRange(1020, 1440)} }

ClockInstants ==
    Instants({2020}, {7}, {8}, (0..23) \X (0..59) \X {0, 59}, {"UTC"})

\* Time tokens: every HH:MM over a few digits, and tokens of another shape.
TimeTokens ==
    { <<a, b, ":", c, d>> : a \in {"0", "1", "2"}, b \in {"0", "3", "4", "9"},
                            c \in {"0", "5", "6"}, d \in {"0", "1", "9"} }
    \cup { <<>>, <<"9", ":", "0", "0">>, <<"0", "9", "0", "0">>,
           <<"0", "9", ":", "0", "0", ":", "0", "0">> }

\* Strings for parseTime: every DD:DD with a first digit up to 3 and a
\* third up to 6, and the tokens of another shape.
TimeStrings ==
    { <<a, b, ":", c, d>> :
        a \in {"0", "1", "2", "3"}, b \in {Digits[k] : k \in DOMAIN Digits},
        c \in {"0", "1", "2", "3", "4", "5", "6"},
        d \in {Digits[k] : k \in DOMAIN Digits} }
    \cup TimeTokens
    \cup { <<"2", "4", ":", "0", "0", " ">>, <<" ", "2", "4", ":", "0", "0">>,
           <<"0", "9", "-", "0", "0">>, <<"0", "9", ":", "0">>,
           <<"a", "b", ":", "c", "d">>, <<":">>,
           <<"-", "1", ":", "0", "0">>, <<"0", "9", ":", "-", "1">> }

TimeRangeNodes ==
    { MappingNode(a, b) : a \in TimeTokens, b \in TimeTokens }
    \cup { ScalarNode(<<"0", "9", ":", "0", "0">>) }

TimeRangeReceivers == {ZeroTimeRange, timeRange(540, 1020)}

\* Weekday tokens: names known and unknown, in three casings, alone, in
\* pairs and in triples.
OtherNames ==
    { <<"b", "l", "u", "r", "g", "s", "d", "a", "y">>, <<"m", "o", "n">>, <<>> }

ToUpper(s) ==
    [k \in DOMAIN s |->
        IF \E u \in DOMAIN LowerCase : LowerCase[u] = s[k]
        THEN UpperCase[CHOOSE u \in DOMAIN LowerCase : LowerCase[u] = s[k]]
        ELSE s[k]]

Capitalised(s) == IF Len(s) = 0 THEN s ELSE ToUpper(<<Head(s)>>) \o Tail(s)

Names == DOMAIN daysOfWeek \cup OtherNames

WeekdayTokens ==
    LET cased == Names \cup { ToUpper(n) : n \in Names }
                       \cup { Capitalised(n) : n \in Names }
        pairs == { Join(a, b) : a \in Names, b \in Names }
    IN  cased \cup pairs
          \cup { Capitalised(p) : p \in pairs }
          \cup { Join(p, <<"s", "u", "n", "d", "a", "y">>) :
                   p \in { Join(a, a) : a \in DOMAIN daysOfWeek } }

WeekdayNodes ==
    { ScalarNode(s) : s \in WeekdayTokens }
    \cup { MappingNode(<<"0", "9", ":", "0", "0">>, <<"1", "7", ":", "0", "0">>) }

WeekdayReceivers == {ZeroRange, inclusiveRange(1, 5)}

\* Day-of-month tokens: the decimal text of a few integers, alone and in
\* pairs, and tokens of another shape.
DayInts == {-50, -32, -31, -25, -20, -15, -3, -1, 0, 1, 5, 10, 28, 31}

DayTokens ==
    { Itoa(b) : b \in DayInts }
    \cup { Join(Itoa(b), Itoa(e)) : b \in DayInts, e \in DayInts }
    \cup { <<>>, <<"x">>, <<":">>, <<"1", ":", "2", ":", "3">>, <<"1", ":">> }

\* Texts of interval lists: intervals of one dimension, well formed and
\* not, the two intervals of the tests, and lists of them.
T(hh, mm) == <<hh[1], hh[2], ":", mm[1], mm[2]>>

SomeTimeTexts ==
    { <<MappingNode(T(<<"0", "9">>, <<"0", "0">>), T(<<"1", "7">>, <<"0", "0">>))>>,
      <<MappingNode(T(<<"0", "0">>, <<"0", "0">>), T(<<"2", "4">>, <<"0", "0">>)),
        MappingNode(T(<<"0", "1">>, <<"3", "5">>), T(<<"1", "7">>, <<"3", "9">>))>>,
      <<MappingNode(<<"9", ":", "0", "0">>, T(<<"1", "7">>, <<"0", "0">>))>>,
      <<MappingNode(T(<<"1", "7">>, <<"3", "1">>), T(<<"1", "7">>, <<"3", "1">>))>>,
      <<MappingNode(T(<<"0", "9">>, <<"0", "0">>), <<"1", "7", "0", "0">>)>> }

SomeWeekdayTexts ==
    { <<Join(DayName(1), DayName(5)), DayName(6)>>,
      <<Capitalised(DayName(0))>>,
      <<Join(DayName(2), DayName(2))>>,
      <<Join(DayName(5), DayName(1))>> }

SomeDayTexts ==
    { <<Join(Itoa(1), Itoa(-1))>>, <<Join(Itoa(-7), Itoa(-1)), Itoa(5)>>,
      <<Itoa(0)>>, <<Join(Itoa(4), Itoa(4))>> }

SomeMonthTexts == { <<Join(Itoa(1), Itoa(3))>>, <<Itoa(6), Itoa(12)>>, <<<<"x">>>> }

SomeYearTexts ==
    { <<Join(Itoa(2020), Itoa(2025)), Join(Itoa(2030), Itoa(2035))>>,
      <<Itoa(2020)>>, <<<<"+", "2", "0", "2", "1">>>> }

IntervalTexts ==
    { IntervalText(<<>>, <<>>, <<>>, <<>>, <<>>) }
    \cup { IntervalText(a, <<>>, <<>>, <<>>, <<>>) : a \in SomeTimeTexts }
    \cup { IntervalText(<<>>, a, <<>>, <<>>, <<>>) : a \in SomeWeekdayTexts }
    \cup { IntervalText(<<>>, <<>>, a, <<>>, <<>>) : a \in SomeDayTexts }
    \cup { IntervalText(<<>>, <<>>, <<>>, a, <<>>) : a \in SomeMonthTexts }
    \cup { IntervalText(<<>>, <<>>, <<>>, <<>>, a) : a \in SomeYearTexts }
    \cup { IntervalText(<<MappingNode(T(<<"0", "9">>, <<"0", "0">>),
                                      T(<<"1", "7">>, <<"0", "0">>))>>,
                        <<Join(DayName(1), DayName(5)), DayName(0)>>,
                        <<Join(Itoa(-7), Itoa(-1))>>,
                        <<Join(Itoa(1), Itoa(3))>>,
                        <<Join(Itoa(2020), Itoa(2025)), Join(Itoa(2030), Itoa(2035))>>),
           IntervalText(<<MappingNode(T(<<"0", "9">>, <<"0", "0">>),
                                      T(<<"1", "7">>, <<"0", "0">>))>>,
                        <<Join(DayName(1), DayName(5))>>, <<>>, <<>>, <<>>) }

\* the most intervals a list of the inputs holds
MaxIntervals == 2

IntervalListTexts == SeqsUpTo(IntervalTexts, MaxIntervals)

-----------------------------------------------------------------------------
(* State machine.  The initial states draw the inputs of one call; the     *)
(* actions run the call.                                                   *)

NoInstant == Instant(2020, 1, 1, 0, 0, 0, "UTC")
NoNode == ScalarNode(<<>>)

NoContainsInput == tp = ZeroInterval /\ t = NoInstant /\ contained = FALSE
NoTimeRangeInput ==
    y = NoNode /\ tr0 = ZeroTimeRange /\ tr = ZeroTimeRange /\ trErr = "nil"
NoWeekdayInput ==
    dowString = NoNode /\ wr0 = ZeroRange /\ wr = ZeroRange /\ wrErr = "nil"
NoDayOfMonthInput == domString = <<>> /\ dr = ZeroRange /\ drErr = "nil"
NoParseTimeInput == timeString = <<>> /\ mins = 0 /\ minsErr = "nil"
NoRoundTripInput ==
    /\ text = <<>> /\ x = <<>> /\ xErr = "nil"
    /\ out = <<>> /\ x2 = <<>> /\ x2Err = "nil"

\* the inputs of a call tp.ContainsTime(t)
ContainsInput(intervals, instants) ==
    /\ op = "call ContainsTime"
    /\ tp \in intervals
    /\ t \in instants
    /\ contained = FALSE
    /\ NoTimeRangeInput /\ NoWeekdayInput /\ NoDayOfMonthInput
    /\ NoParseTimeInput /\ NoRoundTripInput

Init == ContainsInput(Intervals, SomeInstants)
InitDays == ContainsInput(DayIntervals, DayInstants)
InitClock == ContainsInput(ClockIntervals, ClockInstants)

InitParse ==
    \/ /\ op = "call timeRange.UnmarshalYAML"
       /\ y \in TimeRangeNodes
       /\ tr0 \in TimeRangeReceivers
       /\ tr = tr0
       /\ trErr = "nil"
       /\ NoContainsInput /\ NoWeekdayInput /\ NoDayOfMonthInput
       /\ NoParseTimeInput /\ NoRoundTripInput
    \/ /\ op = "call weekdayRange.UnmarshalYAML"
       /\ dowString \in WeekdayNodes
       /\ wr0 \in WeekdayReceivers
       /\ wr = wr0
       /\ wrErr = "nil"
       /\ NoContainsInput /\ NoTimeRangeInput /\ NoDayOfMonthInput
       /\ NoParseTimeInput /\ NoRoundTripInput
    \/ /\ op = "call parseDayOfMonth"
       /\ domString \in DayTokens
       /\ dr = ZeroRange
       /\ drErr = "nil"
       /\ NoContainsInput /\ NoTimeRangeInput /\ NoWeekdayInput
       /\ NoParseTimeInput /\ NoRoundTripInput
    \/ /\ op = "call parseTime"
       /\ timeString \in TimeStrings
       /\ mins = 0
       /\ minsErr = "nil"
       /\ NoContainsInput /\ NoTimeRangeInput /\ NoWeekdayInput
       /\ NoDayOfMonthInput /\ NoRoundTripInput

\* tp.ContainsTime(t)
CallContainsTime ==
    /\ op = "call ContainsTime"
    /\ op' = "ContainsTime"
    /\ contained' = ContainsTime(tp, t)
    /\ UNCHANGED <<tp, t, timeRangeVars, weekdayVars, dayOfMonthVars,
                   parseTimeVars, roundTripVars>>

\* tr.UnmarshalYAML(unmarshal), the receiver being tr0 and the node y
CallUnmarshalTimeRange ==
    /\ op = "call timeRange.UnmarshalYAML"
    /\ op' = "timeRange.UnmarshalYAML"
    /\ tr' = UnmarshalTimeRange(tr0, y).tr
    /\ trErr' = UnmarshalTimeRange(tr0, y).err
    /\ UNCHANGED <<y, tr0, containsVars, weekdayVars, dayOfMonthVars,
                   parseTimeVars, roundTripVars>>

\* wr.UnmarshalYAML(unmarshal), the receiver being wr0 and the node dowString
CallUnmarshalWeekdayRange ==
    /\ op = "call weekdayRange.UnmarshalYAML"
    /\ op' = "weekdayRange.UnmarshalYAML"
    /\ wr' = UnmarshalWeekdayRange(wr0, dowString).wr
    /\ wrErr' = UnmarshalWeekdayRange(wr0, dowString).err
    /\ UNCHANGED <<dowString, wr0, containsVars, timeRangeVars, dayOfMonthVars,
                   parseTimeVars, roundTripVars>>

\* the day-of-month parser on the token domString
CallParseDayOfMonth ==
    /\ op = "call parseDayOfMonth"
    /\ op' = "parseDayOfMonth"
    /\ dr' = parseDayOfMonth(domString).dr
    /\ drErr' = parseDayOfMonth(domString).err
    /\ UNCHANGED <<domString, containsVars, timeRangeVars, weekdayVars,
                   parseTimeVars, roundTripVars>>

\* parseTime(timeString)
CallParseTime ==
    /\ op = "call parseTime"
    /\ op' = "parseTime"
    /\ mins' = parseTime(timeString).mins
    /\ minsErr' = parseTime(timeString).err
    /\ UNCHANGED <<timeString, containsVars, timeRangeVars, weekdayVars,
                   dayOfMonthVars, roundTripVars>>

Next == CallContainsTime

NextParse ==
    \/ CallUnmarshalTimeRange
    \/ CallUnmarshalWeekdayRange
    \/ CallParseDayOfMonth
    \/ CallParseTime

InitRoundTrip ==
    /\ op = "call Unmarshal"
    /\ text \in IntervalListTexts
    /\ x = <<>> /\ xErr = "nil"
    /\ out = <<>> /\ x2 = <<>> /\ x2Err = "nil"
    /\ NoContainsInput /\ NoTimeRangeInput /\ NoWeekdayInput
    /\ NoDayOfMonthInput /\ NoParseTimeInput

\* yaml.Unmarshal(text, &x)
CallUnmarshal ==
    /\ op = "call Unmarshal"
    /\ op' = "Unmarshal"
    /\ \E r \in {UnmarshalIntervals(text)} : x' = r.x /\ xErr' = r.err
    /\ UNCHANGED <<text, out, x2, x2Err, containsVars, timeRangeVars, weekdayVars,
                   dayOfMonthVars, parseTimeVars>>

\* out = yaml.Marshal(&x), of a list that parsed without an error
CallMarshal ==
    /\ op = "Unmarshal"
    /\ xErr = "nil"
    /\ op' = "Marshal"
    /\ out' = MarshalIntervals(x)
    /\ UNCHANGED <<text, x, xErr, x2, x2Err, containsVars, timeRangeVars,
                   weekdayVars, dayOfMonthVars, parseTimeVars>>

\* yaml.Unmarshal(out, &x2)
CallUnmarshalAgain ==
    /\ op = "Marshal"
    /\ op' = "Unmarshal again"
    /\ \E r \in {UnmarshalIntervals(out)} : x2' = r.x /\ x2Err' = r.err
    /\ UNCHANGED <<text, x, xErr, out, containsVars, timeRangeVars, weekdayVars,
                   dayOfMonthVars, parseTimeVars>>

NextRoundTrip ==
    \/ CallUnmarshal
    \/ CallMarshal
    \/ CallUnmarshalAgain


\* ContainsTime on intervals of several dimensions and ranges
Spec == Init /\ [][Next]_vars
\* ContainsTime on day-of-month intervals, every day of two years
SpecDays == InitDays /\ [][Next]_vars
\* ContainsTime on intervals of one time range, every minute of a day
SpecClock == InitClock /\ [][Next]_vars
\* the parsers
SpecParse == InitParse /\ [][NextParse]_vars
\* a list of intervals parsed, encoded and parsed again
SpecRoundTrip == InitRoundTrip /\ [][NextRoundTrip]_vars

-----------------------------------------------------------------------------
(* What the specification says a dimension means, written from its text:   *)
(* a populated dimension is satisfied when at least one of its ranges      *)
(* holds the instant.                                                      *)

Dimensions == {"times", "daysOfMonth", "months", "daysOfWeek", "years"}

MinuteOfDay(i) == i.hour * 60 + i.minute

\* the range r of dimension d holds the instant i
Holds(d, r, i) ==
    CASE d = "times" -> r.startMinute <= MinuteOfDay(i) /\ MinuteOfDay(i) < r.endMinute
      [] d = "daysOfMonth" ->
            LET b == IF r.begin < 0 THEN daysInMonth(i) + r.begin + 1 ELSE r.begin
                e == IF r.end < 0 THEN daysInMonth(i) + r.end + 1 ELSE r.end
            IN  b <= i.day /\ i.day <= e
      [] d = "months" -> r.begin <= i.month /\ i.month <= r.end
      [] d = "daysOfWeek" -> r.begin <= Weekday(i) /\ Weekday(i) <= r.end
      [] d = "years" -> r.begin <= i.year /\ i.year <= r.end

Populated(v, d) == Len(v[d]) > 0
Satisfied(v, d, i) == \E k \in DOMAIN v[d] : Holds(d, v[d][k], i)

\* the interval v with the constraint of dimension d removed
Without(v, d) == [v EXCEPT ![d] = <<>>]

OnlyDaysOfMonth(r) == TimeInterval(<<>>, <<r>>, <<>>, <<>>, <<>>)

-----------------------------------------------------------------------------
(* Claims about ContainsTime *)

\* C1: ContainsTime returns true if and only if every populated dimension
\* has at least one range that holds the instant, a later range counting
\* as much as the first.
C1_TrueIffEveryDimensionHasARange ==
    op = "ContainsTime" =>
        (contained <=> \A d \in Dimensions : Populated(tp, d) => Satisfied(tp, d, t))

\* C2: the day-of-month range {-3,-1} matches exactly the last three days
\* of the instant's calendar month (29..31 of 31, 28..30 of 30, 27..29 of
\* 29, 26..28 of 28), and no other day.
C2_LastThreeDaysOfTheMonth ==
    (op = "ContainsTime" /\ tp = OnlyDaysOfMonth(inclusiveRange(-3, -1))) =>
        (contained <=> /\ t.day >= CalendarDays(t.year, t.month) - 2
                       /\ t.day <= CalendarDays(t.year, t.month))

\* C3: for a single time range {start,end}, ContainsTime is true exactly
\* when start <= hour*60+minute < end, whatever the seconds; 09:00-17:00
\* holds 09:00:00 and 16:59:59 and neither 08:59:59 nor 17:00:00.
C3_TimeOfDayHalfOpen ==
    (op = "ContainsTime" /\ Len(tp.times) = 1 /\ tp = [ZeroInterval EXCEPT !.times = tp.times]) =>
        /\ contained <=> /\ tp.times[1].startMinute <= t.hour * 60 + t.minute
                         /\ t.hour * 60 + t.minute < tp.times[1].endMinute
        /\ tp.times[1] = timeRange(540, 1020) =>
              /\ (t.hour = 9 /\ t.minute = 0) => contained
              /\ (t.hour = 16 /\ t.minute = 59) => contained
              /\ (t.hour = 8 /\ t.minute = 59) => ~contained
              /\ (t.hour = 17 /\ t.minute = 0) => ~contained

C3_Witness ==
    /\ op = "ContainsTime"
    /\ tp.times = <<timeRange(540, 1020)>>
    /\ t.hour = 16 /\ t.minute = 59 /\ t.second = 59
    /\ contained

\* C6: a contained instant stays contained when the constraint of any one
\* dimension is removed, and the zero-value TimeInterval contains every
\* instant.
C6_UnpopulatedDimensionIsSatisfied ==
    op = "ContainsTime" =>
        /\ contained => \A d \in Dimensions : ContainsTime(Without(tp, d), t)
        /\ tp = ZeroInterval => contained

C6_Witness ==
    /\ op = "ContainsTime"
    /\ contained
    /\ Cardinality({d \in Dimensions : Populated(tp, d)}) >= 2
    /\ \E d \in Dimensions : Populated(tp, d) /\ Without(tp, d) # ZeroInterval

C8_WholeMonthRange ==
    op = "ContainsTime" =>
        \A r \in {inclusiveRange(1, -1), inclusiveRange(-31, 31)} :
            /\ tp = OnlyDaysOfMonth(r) => contained
            /\ tp = [OnlyDaysOfMonth(r) EXCEPT !.months = <<inclusiveRange(6, 6)>>] =>
                  (contained <=> t.month = 6)

-----------------------------------------------------------------------------
(* Claims about the parsers.  The token formats are written here from the  *)
(* specification's text, not from the parsers.                             *)

\* a time token: HH:MM with hours 00-23 and minutes 00-59, or exactly 24:00
IsTimeToken(s) ==
    /\ Len(s) = 5
    /\ s[3] = ":"
    /\ \A k \in {1, 2, 4, 5} : IsDigit(s[k])
    /\ LET hh == 10 * DigitValue(s[1]) + DigitValue(s[2])
           mm == 10 * DigitValue(s[4]) + DigitValue(s[5])
       IN  (hh <= 23 /\ mm <= 59) \/ (hh = 24 /\ mm = 0)

\* the minute of the day a time token names
TokenMinutes(s) ==
    60 * (10 * DigitValue(s[1]) + DigitValue(s[2]))
      + 10 * DigitValue(s[4]) + DigitValue(s[5])

\* C4: every timeRange that timeRange.UnmarshalYAML produces without an
\* error has 0 <= startMinute < endMinute <= 1440, and every pair of
\* tokens whose minutes violate this, start = end included, is rejected.
C4_TimeRangeWellFormed ==
    (op = "timeRange.UnmarshalYAML" /\ y.kind = "mapping") =>
        /\ trErr = "nil" =>
              /\ 0 <= tr.startMinute
              /\ tr.startMinute < tr.endMinute
              /\ tr.endMinute <= 1440
        /\ (/\ IsTimeToken(y.StartTime) /\ IsTimeToken(y.EndTime)
            /\ TokenMinutes(y.StartTime) >= TokenMinutes(y.EndTime)) =>
              trErr # "nil"

\* C5: timeRange.UnmarshalYAML returns an error whenever start_time or
\* end_time is absent or is not a time token, for a malformed start_time
\* just as for a malformed end_time.
C5_TimeRangeFailsClosed ==
    (/\ op = "timeRange.UnmarshalYAML"
     /\ y.kind = "mapping"
     /\ ~(IsTimeToken(y.StartTime) /\ IsTimeToken(y.EndTime))) =>
        trErr # "nil"

\* the day names in ordinal order, Sunday = 0
DayNames ==
    << <<"s", "u", "n", "d", "a", "y">>,
       <<"m", "o", "n", "d", "a", "y">>,
       <<"t", "u", "e", "s", "d", "a", "y">>,
       <<"w", "e", "d", "n", "e", "s", "d", "a", "y">>,
       <<"t", "h", "u", "r", "s", "d", "a", "y">>,
       <<"f", "r", "i", "d", "a", "y">>,
       <<"s", "a", "t", "u", "r", "d", "a", "y">> >>

\* two strings equal but for the case of their letters
EqualFold(a, b) ==
    /\ Len(a) = Len(b)
    /\ \A k \in DOMAIN a :
          \/ a[k] = b[k]
          \/ \E u \in DOMAIN UpperCase :
                {a[k], b[k]} = {UpperCase[u], LowerCase[u]}

\* C9: parseDayOfWeekString succeeds exactly on a known day name d, with
\* begin = end = ord(d), and on a:b with both names known and
\* ord(a) <= ord(b), with begin = ord(a) and end = ord(b), case ignored;
\* every other token is an error; an accepted range has
\* 0 <= begin <= end <= 6.
C9_WeekdayTokens ==
    (op = "weekdayRange.UnmarshalYAML" /\ dowString.kind = "scalar") =>
        LET s == dowString.value
            single == { d \in DOMAIN DayNames : EqualFold(s, DayNames[d]) }
            pair == { ab \in (DOMAIN DayNames) \X (DOMAIN DayNames) :
                        /\ ab[1] <= ab[2]
                        /\ EqualFold(s, Join(DayNames[ab[1]], DayNames[ab[2]])) }
        IN  /\ \A d \in single :
                  wrErr = "nil" /\ wr = inclusiveRange(d - 1, d - 1)
            /\ \A ab \in pair :
                  wrErr = "nil" /\ wr = inclusiveRange(ab[1] - 1, ab[2] - 1)
            /\ (single = {} /\ pair = {}) => wrErr # "nil"
            /\ wrErr = "nil" => 0 <= wr.begin /\ wr.begin <= wr.end /\ wr.end <= 6

C9_Witness ==
    /\ op = "weekdayRange.UnmarshalYAML"
    /\ dowString = ScalarNode(Capitalised(Join(DayNames[2], DayNames[6])))
    /\ wr0 = ZeroRange
    /\ wrErr = "nil"
    /\ wr = inclusiveRange(1, 5)

\* C10: the day-of-month parser rejects 0, a range reaching below -31
\* (-50:-20), a range from a negative to a positive day (-15:5) and a range
\* from a positive to a negative day that is empty in every month
\* (10:-25); it accepts the ranges of positive days and of negative days
\* with begin <= end, and 1:-1.
C10_DayOfMonthTokens ==
    op = "parseDayOfMonth" =>
        /\ domString = <<"0">> => drErr # "nil"
        /\ \A b \in DayInts, e \in DayInts :
              domString = Join(Itoa(b), Itoa(e)) =>
                 /\ (b = 0 \/ e = 0) => drErr # "nil"
                 /\ (b < -31 \/ e < -31) => drErr # "nil"
                 /\ (b < 0 /\ e > 0) => drErr # "nil"
                 /\ (b > 0 /\ e < 0 /\ b > 31 + e + 1) => drErr # "nil"
                 /\ (\/ 0 < b /\ b <= e
                     \/ -31 <= b /\ b <= e /\ e < 0
                     \/ b = 1 /\ e = -1) =>
                       drErr = "nil" /\ dr = inclusiveRange(b, e)

C10_Witness ==
    /\ op = "parseDayOfMonth"
    /\ domString = <<"1", ":", "-", "1">>
    /\ drErr = "nil"
    /\ dr = inclusiveRange(1, -1)

\* C11: whenever timeRange.UnmarshalYAML or weekdayRange.UnmarshalYAML
\* returns an error the receiver is exactly what it was before the call;
\* the receiver is written only on the success path.
C11_NoPartialValueOnError ==
    /\ (op = "timeRange.UnmarshalYAML" /\ trErr # "nil") => tr = tr0
    /\ (op = "weekdayRange.UnmarshalYAML" /\ wrErr # "nil") => wr = wr0

C11_Witness ==
    /\ op = "timeRange.UnmarshalYAML"
    /\ y = MappingNode(<<"1", "9", ":", "0", "0">>, <<"0", "9", ":", "0", "0">>)
    /\ tr0 = timeRange(540, 1020)
    /\ trErr # "nil"
    /\ tr = tr0

\* C15: parseTime accepts exactly the tokens HH:MM with HH in 00..23 and
\* MM in 00..59 and the token 24:00; for an accepted token it returns
\* HH*60+MM, in 0..1440, and 1440 only for 24:00; for every other string
\* it returns an error and the value 0.
C15_ParseTimeTokens ==
    op = "parseTime" =>
        IF IsTimeToken(timeString)
        THEN /\ minsErr = "nil"
             /\ mins = TokenMinutes(timeString)
             /\ 0 <= mins /\ mins <= 1440
             /\ mins = 1440 <=> timeString = <<"2", "4", ":", "0", "0">>
        ELSE minsErr # "nil" /\ mins = 0

C15_Witness ==
    /\ op = "parseTime"
    /\ timeString = <<"2", "4", ":", "0", "0">>
    /\ minsErr = "nil"
    /\ mins = 1440

\* C13: daysInMonth(t) is the calendar length (28, 29, 30 or 31) of the
\* month and year of t in every location, also where the month holds a
\* daylight-saving transition and so lasts an hour less or an hour more
\* than 24 hours times its days.
C13_DaysInMonthIsCalendarLength ==
    op = "ContainsTime" => daysInMonth(t) = CalendarDays(t.year, t.month)

\* the sequences that hold the elements of s in another order
Reorderings(s) ==
    { [k \in DOMAIN s |-> s[f[k]]] :
        f \in { g \in [DOMAIN s -> DOMAIN s] :
                  \A a, b \in DOMAIN s : g[a] = g[b] => a = b } }

\* C14: the order of the ranges inside a dimension does not affect the
\* result: ContainsTime returns the same for every permutation of the
\* ranges of any one dimension.
C14_RangeOrderIrrelevant ==
    op = "ContainsTime" =>
        \A d \in Dimensions : \A p \in Reorderings(tp[d]) :
            ContainsTime([tp EXCEPT ![d] = p], t) = contained

\* C12: for every list of TimeIntervals x that parses successfully,
\* parsing the encoding of x yields a list equal to x on all five
\* dimension sequences.
C12_RoundTrip ==
    op = "Unmarshal again" => (x2Err = "nil" /\ x2 = x)

=============================================================================
